---- MODULE Spec2Model ----
(***************************************************************************)
(* lab-assistant: a command-line run measures the OLD and then the NEW     *)
(* version of a page by repeated browser loads (lab-assistant.js), and     *)
(* analyseResults (math.js) compares the two sample sets with a one-sided  *)
(* Welch t-test and prints a verdict through console.log / verbose         *)
(* (output.js).                                                            *)
(*                                                                         *)
(* JavaScript numbers are modelled as rationals [k, n, d] with a positive   *)
(* denominator, plus the non-finite values NaN and +/-Infinity.  The sums   *)
(* and quotients of calculateMean and calculateStandardDeviation round      *)
(* every intermediate result to the nearest binary floating-point number,   *)
(* ties to even, as IEEE 754 arithmetic does; the significand is            *)
(* MantissaBits wide instead of 53 bits, so that rounding happens on the    *)
(* small values the model enumerates.  Measured metric values are small     *)
(* non-negative integers.                                                   *)
(***************************************************************************)
EXTENDS Integers, Sequences, FiniteSets, TLC

\* ------------------------------------------------------------------ bounds
MaxRepeat == 2
MaxThrowaway == 1
MaxValue == 1
MaxSetLen == 3
MaxStatValue == 7
MantissaBits == 4

\* ------------------------------------------------------ JavaScript numbers
Rat(n, d) == [k |-> "fin", n |-> n, d |-> d]
Num(n) == Rat(n, 1)
NaN == [k |-> "nan", n |-> 0, d |-> 1]
PosInf == [k |-> "inf", n |-> 1, d |-> 1]
NegInf == [k |-> "inf", n |-> -1, d |-> 1]

IsFinite(x) == x.k = "fin"
IsNaN(x) == x.k = "nan"
Sign(x) == IF x.n > 0 THEN 1 ELSE IF x.n < 0 THEN -1 ELSE 0

\* a < b and a > b as JavaScript evaluates them: false when either is NaN
Lt(a, b) ==
  /\ ~IsNaN(a)
  /\ ~IsNaN(b)
  /\ IF IsFinite(a) /\ IsFinite(b) THEN a.n * b.d < b.n * a.d
     ELSE IF IsFinite(a) THEN b.n > 0
     ELSE IF IsFinite(b) THEN a.n < 0
     ELSE a.n < b.n
Gt(a, b) == Lt(b, a)
NumEq(a, b) == ~IsNaN(a) /\ ~IsNaN(b) /\ ~Lt(a, b) /\ ~Lt(b, a)

\* a / b
Div(a, b) ==
  IF IsNaN(a) \/ IsNaN(b) THEN NaN
  ELSE IF IsFinite(a) /\ IsFinite(b)
    THEN IF b.n = 0
           THEN (IF a.n = 0 THEN NaN ELSE IF a.n > 0 THEN PosInf ELSE NegInf)
           ELSE IF b.n > 0 THEN Rat(a.n * b.d, a.d * b.n)
           ELSE Rat(-(a.n * b.d), a.d * (-(b.n)))
  ELSE IF IsFinite(b)
    THEN (IF Sign(a) * (IF b.n < 0 THEN -1 ELSE 1) > 0 THEN PosInf ELSE NegInf)
  ELSE IF IsFinite(a) THEN Num(0)
  ELSE NaN

\* a - b
Sub(a, b) ==
  IF IsNaN(a) \/ IsNaN(b) THEN NaN
  ELSE IF IsFinite(a) /\ IsFinite(b) THEN Rat(a.n * b.d - b.n * a.d, a.d * b.d)
  ELSE IF IsFinite(b) THEN a
  ELSE IF IsFinite(a) THEN (IF b.n > 0 THEN NegInf ELSE PosInf)
  ELSE IF a.n = b.n THEN NaN ELSE a

\* a * c for a positive integer c
Scale(a, c) == IF IsFinite(a) THEN Rat(a.n * c, a.d) ELSE a

\* Math.round: the nearest integer, a tie going towards +Infinity
MathRound(x) == IF IsFinite(x) THEN Num((2 * x.n + x.d) \div (2 * x.d)) ELSE x

RECURSIVE Pow10(_)
Pow10(p) == IF p = 0 THEN 1 ELSE 10 * Pow10(p - 1)

\* -a
Neg(a) == IF IsNaN(a) THEN a ELSE [k |-> a.k, n |-> -(a.n), d |-> a.d]

\* a + b
Add(a, b) == Sub(a, Neg(b))

\* Math.pow(a, 2)
Square(a) ==
  IF IsFinite(a) THEN Rat(a.n * a.n, a.d * a.d)
  ELSE IF IsNaN(a) THEN NaN
  ELSE PosInf

RECURSIVE Pow2(_)
Pow2(e) == IF e = 0 THEN 1 ELSE 2 * Pow2(e - 1)

\* the significand m and exponent e of the floating-point number nearest to
\* (n / d) * 2^e0 for n, d > 0: 2^(MantissaBits-1) <= m <= 2^MantissaBits,
\* a tie going to the even significand
MaxSignificand == Pow2(MantissaBits)
MinSignificand == Pow2(MantissaBits - 1)

RECURSIVE Nearest(_, _, _)
Nearest(n, d, e) ==
  IF n >= MaxSignificand * d THEN Nearest(n, 2 * d, e + 1)
  ELSE IF n < MinSignificand * d THEN Nearest(2 * n, d, e - 1)
  ELSE LET q == n \div d
           r == n - q * d
       IN  [m |-> IF 2 * r > d \/ (2 * r = d /\ q % 2 = 1) THEN q + 1 ELSE q,
            e |-> e]

\* m * 2^e as a rational in lowest terms
RECURSIVE Lowest(_, _)
Lowest(m, e) ==
  IF e >= 0 THEN Num(m * Pow2(e))
  ELSE IF m % 2 = 0 THEN Lowest(m \div 2, e + 1)
  ELSE Rat(m, Pow2(-e))

\* the result of an arithmetic operation whose exact value is x: x rounded to
\* the nearest floating-point number
Float(x) ==
  IF ~IsFinite(x) THEN x
  ELSE IF x.n = 0 THEN Num(0)
  ELSE LET f == Nearest(IF x.n < 0 THEN -(x.n) ELSE x.n, x.d, 0)
           r == Lowest(f.m, f.e)
       IN  IF x.n < 0 THEN Neg(r) ELSE r

\* Math.sqrt: zero, or the square root of a positive number, kept symbolic
MathSqrt(x) ==
  IF IsFinite(x) /\ x.n > 0 THEN [k |-> "sqrt", n |-> x.n, d |-> x.d]
  ELSE IF IsFinite(x) /\ x.n < 0 THEN NaN
  ELSE x

\* ------------------------------------------------------------------ math.js
BASE_SIGNIFICANCE == Rat(5, 100)
VERY_SIGNIFICANT == Rat(1, 100)

\* ratePValue with both boundaries on the wrong side
ratePValueInclusive(pValue) ==
  IF ~Lt(pValue, BASE_SIGNIFICANCE) THEN "Not significant"
  ELSE IF ~Lt(pValue, VERY_SIGNIFICANT) THEN "Significant"
  ELSE "Very significant"

ratePValue(pValue) ==
  IF Gt(pValue, BASE_SIGNIFICANCE) THEN "Not significant"
  ELSE IF Gt(pValue, VERY_SIGNIFICANT) THEN "Significant"
  ELSE "Very significant"

\* Array.prototype.reduce without an initial value throws on an empty array
MeanThrows(values) == Len(values) = 0

\* values.reduce((sum, value) => (sum += value)) from element k on
RECURSIVE ReduceSum(_, _, _)
ReduceSum(values, k, sum) ==
  IF k > Len(values) THEN sum
  ELSE ReduceSum(values, k + 1, Float(Add(sum, Num(values[k]))))

calculateMean(values) ==
  Float(Div(ReduceSum(values, 2, Num(values[1])), Num(Len(values))))

\* values.reduce((sum, value) => (sum += Math.pow(value - mean, 2)), 0) from
\* element k on
RECURSIVE ReduceSquares(_, _, _, _)
ReduceSquares(values, mean, k, sum) ==
  IF k > Len(values) THEN sum
  ELSE ReduceSquares(values, mean, k + 1,
         Float(Add(sum, Float(Square(Float(Sub(Num(values[k]), mean)))))))

NoMean == [k |-> "null", n |-> 0, d |-> 1]

calculateStandardDeviation(values, mean) ==
  LET m == IF mean.k # "null" THEN mean ELSE calculateMean(values)
      variance == Float(Div(ReduceSquares(values, m, 1, Num(0)), Num(Len(values))))
  IN  MathSqrt(variance)

round(value, precision) ==
  IF IsFinite(value)
    THEN Rat(MathRound(Scale(value, Pow10(precision))).n, Pow10(precision))
  ELSE IF value.k = "sqrt"
    THEN [k |-> "sqrt", n |-> value.n, d |-> value.d, digits |-> precision]
  ELSE value

\* ---------------------------------------------------------------- output.js
\* `options` of output.js is <<>> until setOutputOptions stores a record in it
\* verbose that stays silent until the options are set
verboseStrict(options, lines) ==
  IF Len(options) > 0 /\ options[1].verbose THEN lines ELSE <<>>

verbose(options, lines) ==
  IF Len(options) = 0 \/ options[1].verbose THEN lines ELSE <<>>

\* --------------------------------------------------- math.js: analyseResults
\* the direction with the two signs exchanged
SelectDirectionInverted(oldMean, newMean) ==
  IF Lt(oldMean, newMean) THEN 1
  ELSE IF Gt(oldMean, newMean) THEN -1
  ELSE 0

SelectDirection(oldMean, newMean) ==
  IF Lt(oldMean, newMean) THEN -1
  ELSE IF Gt(oldMean, newMean) THEN 1
  ELSE 0

SelectAlternative(oldMean, newMean) ==
  IF Lt(oldMean, newMean) THEN "less"
  ELSE IF Gt(oldMean, newMean) THEN "greater"
  ELSE "none"

\* the call ttest(oldSet, newSet, { alternative })
TTestCall(oldSet, newSet, alternative) ==
  [left |-> oldSet, right |-> newSet, alternative |-> alternative]

\* what testResults.pValue() of the ttest package can return: a probability,
\* or NaN when the test is degenerate (zero variance, a single sample)
TTestOutcomes ==
  {NaN, Rat(1, 1000), Rat(1, 100), Rat(5, 100), Rat(51, 1000), Rat(1, 2)}

\* the direction words exchanged
directionTextInverted(direction) == IF direction = -1 THEN "FASTER" ELSE "SLOWER"

directionText(direction) == IF direction = 1 THEN "FASTER" ELSE "SLOWER"

\* a guard that looks for an infinite p-value and misses NaN
InvalidPValueInfinite(pValue) == pValue.k = "inf"

\* Number.isNaN(pValue)
InvalidPValue(pValue) == IsNaN(pValue)

\* the verbose lines without the test for direction 0
VerboseReportAlways(direction, pValue) ==
  << [t |-> "hypothesis", word |-> directionText(direction)],
     [t |-> "significance", rating |-> ratePValue(pValue), pValue |-> pValue] >>

VerboseReport(direction, pValue) ==
  IF direction # 0
    THEN << [t |-> "hypothesis", word |-> directionText(direction)],
            [t |-> "significance", rating |-> ratePValue(pValue),
             pValue |-> pValue] >>
    ELSE << >>

PercentLine(direction, oldMean, newMean) ==
  LET ratio == Div(newMean, oldMean)
  IN  IF direction = 1
        THEN [t |-> "percent", word |-> "faster",
              pct |-> round(Scale(Sub(Num(1), ratio), 100), 2),
              ofOld |-> round(Scale(ratio, 100), 2)]
        ELSE [t |-> "percent", word |-> "slower",
              pct |-> round(Scale(Sub(ratio, Num(1)), 100), 2),
              ofOld |-> round(Scale(ratio, 100), 2)]

\* VerdictReport with the first `else` lost: equal means fall through to the
\* test of the p-value
VerdictReportFallThrough(direction, pValue, oldMean, newMean) ==
  (IF direction = 0 THEN << [t |-> "noDifference"] >> ELSE << >>)
  \o (IF Gt(pValue, BASE_SIGNIFICANCE)
        THEN << [t |-> "noDifference"], [t |-> "considerVariability"],
                [t |-> "moreSamples"] >>
        ELSE << [t |-> "direction", word |-> directionText(direction)],
                PercentLine(direction, oldMean, newMean) >>)

VerdictReport(direction, pValue, oldMean, newMean) ==
  IF direction = 0
    THEN << [t |-> "noDifference"] >>
  ELSE IF Gt(pValue, BASE_SIGNIFICANCE)
    THEN << [t |-> "noDifference"], [t |-> "considerVariability"],
            [t |-> "moreSamples"] >>
  ELSE << [t |-> "direction", word |-> directionText(direction)],
          PercentLine(direction, oldMean, newMean) >>

\* process.exit(code): the status the parent sees is the low byte of code
ExitStatusOf(code) == code % 256

\* -------------------------------------------------------- lab-assistant.js
MetricChoices == {"load", "tti"}
DirectMetrics == {"ttfb", "dcl", "load", "fp", "fcp", "lcp", "cls"}
LighthouseMetrics == DirectMetrics \cup {"tbt", "tti"}

Argvs ==
  [url2 : BOOLEAN, verbose : BOOLEAN, lighthouse : BOOLEAN,
   metric : MetricChoices, repeat : 0..MaxRepeat, throwaway : 0..MaxThrowaway]

DefaultArgv ==
  [url2 |-> TRUE, verbose |-> FALSE, lighthouse |-> FALSE, metric |-> "load",
   repeat |-> 1, throwaway |-> 1]

VARIABLES
  argv,         \* lab-assistant.js `options`: the parsed command line
  outOptions,   \* output.js `options`: <<>> or <<record with .verbose>>
  pc,           \* where the main function (or the caller of analyseResults) is
  phase,        \* "none", "old" or "new": the version being measured
  i,            \* throwaway loads done in this phase
  j,            \* recorded loads done in this phase
  loadKind,     \* "none", "load" or "loadAndMeasure": the load in flight
  browserOpen,  \* the load in flight holds a launched browser
  closing,      \* browsers whose un-awaited browser.close() has not finished
  oldTimings,   \* metric bundles pushed for the old version
  newTimings,   \* metric bundles pushed for the new version
  oldValues,    \* the old Sample Set handed to analyseResults
  newValues,    \* the new Sample Set handed to analyseResults
  stdout,       \* console.log lines
  stderr,       \* console.error lines
  exitStatus,   \* {} while the process runs, {status} once it has exited
  loadLog,      \* history: every input awaited, load started and load finished
  ttestCalls,   \* history: the calls made to ttest
  analysis      \* history: <<>> or <<the locals of analyseResults>>

vars ==
  << argv, outOptions, pc, phase, i, j, loadKind, browserOpen, closing,
     oldTimings, newTimings, oldValues, newValues, stdout, stderr, exitStatus,
     loadLog, ttestCalls, analysis >>

measureVars == << phase, i, j, loadKind, browserOpen, closing, oldTimings,
                  newTimings, loadLog >>

Alive == exitStatus = {} /\ pc \notin {"hung", "threw"}

OpenBrowsers == (IF browserOpen THEN 1 ELSE 0) + closing

\* an exit that reports success whatever the code
ProcessExitZero(code) ==
  /\ exitStatus' = {ExitStatusOf(code - code)}
  /\ pc' = "exited"
  /\ browserOpen' = FALSE
  /\ closing' = 0

\* process.exit(code), also the end of handleFetchError: the process is gone,
\* and with it the browsers it launched and its pending browser.close() calls
ProcessExit(code) ==
  /\ exitStatus' = {ExitStatusOf(code)}
  /\ pc' = "exited"
  /\ browserOpen' = FALSE
  /\ closing' = 0

\* a rejected promise of the main function that nothing handles: node ends the
\* process with status 1, or (older releases) only warns and the open readline
\* interface keeps the process alive
UnhandledRejection ==
  \/ /\ exitStatus' = {1}
     /\ pc' = "exited"
     /\ browserOpen' = FALSE
     /\ closing' = 0
  \/ /\ pc' = "hung"
     /\ UNCHANGED << exitStatus, browserOpen, closing >>

\* a guard that forgets tti
MetricNeedsLighthouseTbtOnly(metric) == metric \in {"tbt"}

MetricNeedsLighthouse(metric) == metric \in {"tti", "tbt"}

\* a pause condition that is the wrong way round
PauseForSwapInverted(options) == options.url2

\* `!options.url2`: one URL serves both versions, so main prompts and waits
PauseForSwap(options) == ~options.url2

\* the first statements of performMeasurementSet: progress.start, i = 0
StartSet(version) ==
  /\ pc' = "measure"
  /\ phase' = version
  /\ i' = 0
  /\ j' = 0

\* main, from yargs up to the first await
Main ==
  /\ pc = "main"
  /\ IF ~argv.lighthouse /\ MetricNeedsLighthouse(argv.metric)
       THEN /\ stderr' = Append(stderr, [t |-> "lighthouseOnly"])
            /\ ProcessExit(-1)
            /\ UNCHANGED << outOptions, stdout, phase, i, j >>
       ELSE /\ outOptions' = << argv >>
            /\ IF PauseForSwap(argv)
                 THEN /\ stdout' = Append(stdout, [t |-> "pressEnter", version |-> "old"])
                      /\ pc' = "waitOld"
                      /\ UNCHANGED << phase, i, j >>
                 ELSE /\ StartSet("old")
                      /\ UNCHANGED stdout
            /\ UNCHANGED << stderr, exitStatus, browserOpen, closing >>
  /\ UNCHANGED << argv, loadKind, oldTimings, newTimings, oldValues, newValues,
                  loadLog, ttestCalls, analysis >>

\* waitForInput resolves: the user pressed <Enter>
PressEnter ==
  /\ pc \in {"waitOld", "waitNew"}
  /\ StartSet(IF pc = "waitOld" THEN "old" ELSE "new")
  /\ loadLog' = Append(loadLog, [version |-> IF pc = "waitOld" THEN "old" ELSE "new",
                                  kind |-> "waitForInput", ev |-> "resolved"])
  /\ UNCHANGED << argv, outOptions, loadKind, browserOpen, closing, oldTimings,
                  newTimings, oldValues, newValues, stdout, stderr, exitStatus,
                  ttestCalls, analysis >>

\* a recorded-loads loop that stops one load early
RepeatPendingShort(done, options) == done + 1 < options.repeat

\* a throwaway loop that stops one load early
ThrowawayPendingShort(done, options) == done + 1 < options.throwaway

\* the loop conditions of performMeasurementSet
ThrowawayPending(done, options) == done < options.throwaway
RepeatPending(done, options) == done < options.repeat

LogEntry(version, kind, ev) == [version |-> version, kind |-> kind, ev |-> ev]

\* load(url) up to page.goto: initBrowser has launched a browser, initPage
LoadStart ==
  /\ pc = "measure"
  /\ ThrowawayPending(i, argv)
  /\ browserOpen' = TRUE
  /\ loadKind' = "load"
  /\ pc' = "goto"
  /\ loadLog' = Append(loadLog, LogEntry(phase, "load", "start"))
  /\ UNCHANGED << argv, outOptions, phase, i, j, closing, oldTimings,
                  newTimings, oldValues, newValues, stdout, stderr, exitStatus,
                  ttestCalls, analysis >>

\* loadAndMeasure(url) up to the navigation
LoadAndMeasureStart ==
  /\ pc = "measure"
  /\ ~ThrowawayPending(i, argv)
  /\ RepeatPending(j, argv)
  /\ browserOpen' = TRUE
  /\ loadKind' = "loadAndMeasure"
  /\ pc' = "goto"
  /\ loadLog' = Append(loadLog, LogEntry(phase, "loadAndMeasure", "start"))
  /\ UNCHANGED << argv, outOptions, phase, i, j, closing, oldTimings,
                  newTimings, oldValues, newValues, stdout, stderr, exitStatus,
                  ttestCalls, analysis >>

\* a fetch error that is printed and then retried
HandleFetchErrorRetry ==
  /\ stderr' = stderr \o << [t |-> "blank"], [t |-> "Error fetching page."],
                            [t |-> "error"], [t |-> "Exiting."] >>
  /\ pc' = "measure"
  /\ UNCHANGED << exitStatus, browserOpen, closing >>

\* handleFetchError(e)
HandleFetchError ==
  /\ stderr' = stderr \o << [t |-> "blank"], [t |-> "Error fetching page."],
                            [t |-> "error"], [t |-> "Exiting."] >>
  /\ ProcessExit(-1)

\* teardown(browser), called without await: browser.close() is started and the
\* caller goes on; the browser is gone only when BrowserClosed happens
Teardown ==
  /\ browserOpen' = FALSE
  /\ closing' = closing + 1

\* the rest of load(url): page.goto, then teardown
LoadGoto ==
  /\ pc = "goto"
  /\ loadKind = "load"
  /\ \/ /\ Teardown
        /\ i' = i + 1
        /\ loadKind' = "none"
        /\ pc' = "measure"
        /\ loadLog' = Append(loadLog, LogEntry(phase, "load", "end"))
        /\ UNCHANGED << stderr, exitStatus >>
     \/ /\ HandleFetchError
        /\ UNCHANGED << i, loadKind, loadLog >>
  /\ UNCHANGED << argv, outOptions, phase, j, oldTimings, newTimings,
                  oldValues, newValues, stdout, ttestCalls, analysis >>

\* the metric bundle of one load; only the selected metric's value is read
Timings(options, v) ==
  [m \in (IF options.lighthouse THEN LighthouseMetrics ELSE DirectMetrics) |->
     IF m = options.metric THEN v ELSE 0]

\* the rest of loadAndMeasure(url): the navigation, the metrics, teardown, and
\* back in performMeasurementSet timingSet.push(timings)
LoadAndMeasureGoto ==
  /\ pc = "goto"
  /\ loadKind = "loadAndMeasure"
  /\ \/ \E v \in 0..MaxValue :
          /\ Teardown
          /\ IF phase = "old"
               THEN oldTimings' = Append(oldTimings, Timings(argv, v))
                    /\ UNCHANGED newTimings
               ELSE newTimings' = Append(newTimings, Timings(argv, v))
                    /\ UNCHANGED oldTimings
          /\ j' = j + 1
          /\ loadKind' = "none"
          /\ pc' = "measure"
          /\ loadLog' = Append(loadLog, LogEntry(phase, "loadAndMeasure", "end"))
          /\ UNCHANGED << stderr, exitStatus >>
     \/ /\ HandleFetchError
        /\ UNCHANGED << j, loadKind, loadLog, oldTimings, newTimings >>
  /\ UNCHANGED << argv, outOptions, phase, i, oldValues, newValues, stdout,
                  ttestCalls, analysis >>

\* an un-awaited browser.close() finishes
BrowserClosed ==
  /\ Alive
  /\ closing > 0
  /\ closing' = closing - 1
  /\ UNCHANGED << argv, outOptions, pc, phase, i, j, loadKind, browserOpen,
                  oldTimings, newTimings, oldValues, newValues, stdout, stderr,
                  exitStatus, loadLog, ttestCalls, analysis >>

calculateMetric(timings, metric) == timings[metric]

formatMetric(options, value) ==
  IF options.metric = "cls"
    THEN [num |-> round(value, 4), unit |-> ""]
    ELSE [num |-> round(value, 2), unit |-> "ms"]

MaxOf(values) == CHOOSE x \in {values[n] : n \in DOMAIN values} :
                   \A y \in {values[n] : n \in DOMAIN values} : y <= x
MinOf(values) == CHOOSE x \in {values[n] : n \in DOMAIN values} :
                   \A y \in {values[n] : n \in DOMAIN values} : x <= y

\* timingSet.map(timings => calculateMetric(timings, options.metric))
MetricValues(timingSet, options) ==
  [n \in DOMAIN timingSet |-> calculateMetric(timingSet[n], options.metric)]

\* the lines performMeasurementSet prints once its loops are done, and the
\* console.log() of main that follows its return
SetReport(options, out, version, values) ==
  LET Lines(mean, sd) ==
        << [t |-> "blank"], [t |-> "Test results", version |-> version] >>
        \o verbose(out, << [t |-> "Values", values |-> values] >>)
        \o << [t |-> "Mean", text |-> formatMetric(options, mean)],
              [t |-> "Standard deviation", text |-> formatMetric(options, sd)],
              [t |-> "Slowest measurement",
               text |-> formatMetric(options, Num(MaxOf(values)))],
              [t |-> "Fastest measurement",
               text |-> formatMetric(options, Num(MinOf(values)))],
              [t |-> "blank"], [t |-> "blank"] >>
  IN  CHOOSE lines \in
        {Lines(mean, sd) : mean \in {calculateMean(values)},
                           sd \in {calculateStandardDeviation(values,
                                                             calculateMean(values))}} :
        TRUE

\* analyseResults(oldSet, newSet) printing after the lines `out`; `return` is
\* what the caller does once analyseResults has returned
AnalyseResultsOn(out, oldSet, newSet, return) ==
  \E oldMean \in {calculateMean(oldSet)}, newMean \in {calculateMean(newSet)} :
  LET direction == SelectDirection(oldMean, newMean)
      alternative == SelectAlternative(oldMean, newMean)
  IN  \E p \in (IF alternative # "none" THEN TTestOutcomes ELSE {Num(0)}) :
        /\ ttestCalls' =
             IF alternative # "none"
               THEN Append(ttestCalls, TTestCall(oldSet, newSet, alternative))
               ELSE ttestCalls
        /\ analysis' = << [oldMean |-> oldMean, newMean |-> newMean,
                           direction |-> direction, pValue |-> p] >>
        /\ IF InvalidPValue(p)
             THEN /\ stderr' = Append(stderr, [t |-> "Error: p-value is NaN."])
                  /\ stdout' = out
                  /\ ProcessExit(-1)
             ELSE /\ stdout' = out
                       \o verbose(outOptions, VerboseReport(direction, p))
                       \o VerdictReport(direction, p, oldMean, newMean)
                  /\ UNCHANGED stderr
                  /\ return

\* the old set's loops are done: the rest of performMeasurementSet, and main up
\* to its next await
FinishOldSet ==
  /\ pc = "measure"
  /\ phase = "old"
  /\ ~ThrowawayPending(i, argv)
  /\ ~RepeatPending(j, argv)
  /\ LET values == MetricValues(oldTimings, argv)
     IN  IF MeanThrows(values)
           THEN /\ UnhandledRejection
                /\ UNCHANGED << oldValues, stdout, phase, i, j >>
           ELSE /\ oldValues' = values
                /\ UNCHANGED << exitStatus, browserOpen, closing >>
                /\ IF PauseForSwap(argv)
                     THEN /\ stdout' = stdout
                               \o SetReport(argv, outOptions, "old", values)
                               \o << [t |-> "pressEnter", version |-> "new"] >>
                          /\ pc' = "waitNew"
                          /\ UNCHANGED << phase, i, j >>
                     ELSE /\ stdout' = stdout \o SetReport(argv, outOptions, "old", values)
                          /\ StartSet("new")
  /\ UNCHANGED << argv, outOptions, loadKind, oldTimings, newTimings,
                  newValues, stderr, loadLog, ttestCalls, analysis >>

\* the new set's loops are done: the rest of performMeasurementSet, then main
\* calls analyseResults(oldValues, newValues) and process.exit(0)
FinishNewSet ==
  /\ pc = "measure"
  /\ phase = "new"
  /\ ~ThrowawayPending(i, argv)
  /\ ~RepeatPending(j, argv)
  /\ LET values == MetricValues(newTimings, argv)
     IN  IF MeanThrows(values)
           THEN /\ UnhandledRejection
                /\ UNCHANGED << newValues, stdout, stderr, ttestCalls, analysis >>
           ELSE /\ newValues' = values
                /\ AnalyseResultsOn(stdout \o SetReport(argv, outOptions, "new", values),
                                    oldValues, values, ProcessExit(0))
  /\ UNCHANGED << argv, outOptions, phase, i, j, loadKind, oldTimings,
                  newTimings, oldValues, loadLog >>

Init ==
  /\ argv \in Argvs
  /\ outOptions = << >>
  /\ pc = "main"
  /\ phase = "none"
  /\ i = 0
  /\ j = 0
  /\ loadKind = "none"
  /\ browserOpen = FALSE
  /\ closing = 0
  /\ oldTimings = << >>
  /\ newTimings = << >>
  /\ oldValues = << >>
  /\ newValues = << >>
  /\ stdout = << >>
  /\ stderr = << >>
  /\ exitStatus = {}
  /\ loadLog = << >>
  /\ ttestCalls = << >>
  /\ analysis = << >>

Next ==
  \/ Main
  \/ PressEnter
  \/ LoadStart
  \/ LoadGoto
  \/ LoadAndMeasureStart
  \/ LoadAndMeasureGoto
  \/ BrowserClosed
  \/ FinishOldSet
  \/ FinishNewSet

Spec == Init /\ [][Next]_vars

\* ------------------------------------------------------------------------
\* math.js and output.js used as modules: a caller that may or may not have
\* called setOutputOptions hands two Sample Sets to analyseResults
SampleSets == UNION {[1..n -> 0..MaxValue] : n \in 0..MaxSetLen}

\* setOutputOptions(opt)
SetOutputOptions ==
  /\ pc = "analyse"
  /\ \E v \in BOOLEAN : outOptions' = << [verbose |-> v] >>
  /\ UNCHANGED << argv, pc, oldValues, newValues, stdout, stderr, exitStatus,
                  ttestCalls, analysis, measureVars >>

\* a call analyseResults(oldValues, newValues) from outside main
AnalyseResults ==
  /\ pc = "analyse"
  /\ IF MeanThrows(oldValues) \/ MeanThrows(newValues)
       THEN /\ pc' = "threw"
            /\ UNCHANGED << stdout, stderr, exitStatus, ttestCalls, analysis,
                            browserOpen, closing >>
       ELSE AnalyseResultsOn(stdout, oldValues, newValues,
                             /\ pc' = "analysed"
                             /\ UNCHANGED << exitStatus, browserOpen, closing >>)
  /\ UNCHANGED << argv, outOptions, oldValues, newValues, phase, i, j,
                  loadKind, oldTimings, newTimings, loadLog >>

InitAnalyse ==
  /\ argv = DefaultArgv
  /\ outOptions = << >>
  /\ pc = "analyse"
  /\ phase = "none"
  /\ i = 0
  /\ j = 0
  /\ loadKind = "none"
  /\ browserOpen = FALSE
  /\ closing = 0
  /\ oldTimings = << >>
  /\ newTimings = << >>
  /\ oldValues \in SampleSets
  /\ newValues \in SampleSets
  /\ stdout = << >>
  /\ stderr = << >>
  /\ exitStatus = {}
  /\ loadLog = << >>
  /\ ttestCalls = << >>
  /\ analysis = << >>

NextAnalyse ==
  \/ SetOutputOptions
  \/ AnalyseResults

SpecAnalyse == InitAnalyse /\ [][NextAnalyse]_vars

\* ------------------------------------------- math.js statistics as a module
StatSets == UNION {[1..n -> 0..MaxStatValue] : n \in 1..MaxSetLen}

\* a call calculateMean(oldValues)
CalculateMean ==
  /\ pc = "stats"
  /\ pc' = "mean"
  /\ analysis' = << [mean |-> calculateMean(oldValues)] >>
  /\ UNCHANGED << argv, outOptions, oldValues, newValues, stdout, stderr,
                  exitStatus, ttestCalls, measureVars >>

\* a call calculateStandardDeviation(oldValues, mean) with the mean computed
\* before, or calculateStandardDeviation(oldValues) without one
CalculateStandardDeviation ==
  /\ pc \in {"stats", "mean"}
  /\ pc' = "sd"
  /\ analysis' =
       << [hint |-> pc = "mean",
           sd |-> calculateStandardDeviation(
                    oldValues, IF pc = "mean" THEN analysis[1].mean ELSE NoMean)] >>
  /\ UNCHANGED << argv, outOptions, oldValues, newValues, stdout, stderr,
                  exitStatus, ttestCalls, measureVars >>

InitStats ==
  /\ argv = DefaultArgv
  /\ outOptions = << >>
  /\ pc = "stats"
  /\ phase = "none"
  /\ i = 0
  /\ j = 0
  /\ loadKind = "none"
  /\ browserOpen = FALSE
  /\ closing = 0
  /\ oldTimings = << >>
  /\ newTimings = << >>
  /\ oldValues \in StatSets
  /\ newValues = << >>
  /\ stdout = << >>
  /\ stderr = << >>
  /\ exitStatus = {}
  /\ loadLog = << >>
  /\ ttestCalls = << >>
  /\ analysis = << >>

NextStats ==
  \/ CalculateMean
  \/ CalculateStandardDeviation

SpecStats == InitStats /\ [][NextStats]_vars


\* ------------------------------------------------------------------------
\* Properties
\* ------------------------------------------------------------------------
Tags(out) == [n \in DOMAIN out |-> out[n].t]
HasLine(out, tag) == \E n \in DOMAIN out : out[n].t = tag
VerboseTags == {"hypothesis", "significance"}
VerdictTags == {"noDifference", "considerVariability", "moreSamples",
                "direction", "percent"}
AnalyseTags == VerboseTags \cup VerdictTags
IsVerdictLine(line) == line.t \in VerdictTags
IsAnalyseLine(line) == line.t \in AnalyseTags
VerdictPrinted == HasLine(stdout, "noDifference") \/ HasLine(stdout, "direction")
FetchFailed == HasLine(stderr, "Error fetching page.")
Analysed == Len(analysis) = 1
CountLog(version, kind, ev) ==
  Cardinality({n \in DOMAIN loadLog : loadLog[n] = LogEntry(version, kind, ev)})
NewLoadBegun ==
  \E n \in DOMAIN loadLog :
    loadLog[n].version = "new" /\ loadLog[n].kind # "waitForInput"

\* the two means compared exactly, from the Sample Sets themselves
\* the exact sum of a sample set, for comparing exact means
RECURSIVE SumSeq(_)
SumSeq(values) ==
  IF Len(values) = 0 THEN 0 ELSE Head(values) + SumSeq(Tail(values))

OldMeanLess == SumSeq(oldValues) * Len(newValues) < SumSeq(newValues) * Len(oldValues)
OldMeanGreater == SumSeq(oldValues) * Len(newValues) > SumSeq(newValues) * Len(oldValues)
MeansEqual == SumSeq(oldValues) * Len(newValues) = SumSeq(newValues) * Len(oldValues)

\* C1: once a load of the new version has begun, every throwaway load and
\* every recorded load of the old version has been started and has finished,
\* the old Sample Set is complete, and no load of the old version follows a
\* load of the new version.
C1_OldCompleteBeforeNew ==
  /\ \A a, b \in DOMAIN loadLog :
       (a < b /\ loadLog[a].version = "new") => loadLog[b].version = "new"
  /\ NewLoadBegun =>
       /\ CountLog("old", "load", "start") = argv.throwaway
       /\ CountLog("old", "load", "end") = argv.throwaway
       /\ CountLog("old", "loadAndMeasure", "start") = argv.repeat
       /\ CountLog("old", "loadAndMeasure", "end") = argv.repeat
       /\ Len(oldTimings) = argv.repeat
       /\ Len(oldValues) = argv.repeat

C1_Witness ==
  /\ NewLoadBegun
  /\ argv.repeat = 2
  /\ argv.throwaway = 1
  /\ CountLog("new", "loadAndMeasure", "end") = 1

\* C2: at most one browser is open at any time: the browser of a load has
\* been closed before the next load launches its own.
C2_OneBrowserAtATime == OpenBrowsers <= 1

\* C3: once a page fetch has failed the error has been printed, the process
\* has exited with a non-zero status, the failed load is the last load that
\* was started, every recorded sample comes from a load that finished, and no
\* verdict has been printed.
C3_FetchFailureIsFatal ==
  FetchFailed =>
    /\ pc = "exited"
    /\ exitStatus # {}
    /\ 0 \notin exitStatus
    /\ HasLine(stderr, "Exiting.")
    /\ loadLog[Len(loadLog)].ev = "start"
    /\ Cardinality({n \in DOMAIN loadLog : loadLog[n].ev = "start"})
         = 1 + Cardinality({n \in DOMAIN loadLog : loadLog[n].ev = "end"})
    /\ Len(oldTimings) = CountLog("old", "loadAndMeasure", "end")
    /\ Len(newTimings) = CountLog("new", "loadAndMeasure", "end")
    /\ ~VerdictPrinted
    /\ ~Analysed

C3_Witness ==
  /\ FetchFailed
  /\ phase = "new"
  /\ loadKind = "loadAndMeasure"
  /\ Len(newTimings) = 1

C5_DirectionFromMeans ==
  Analysed =>
    /\ OldMeanLess =>
         /\ analysis[1].direction = -1
         /\ ttestCalls = << [left |-> oldValues, right |-> newValues,
                             alternative |-> "less"] >>
    /\ OldMeanGreater =>
         /\ analysis[1].direction = 1
         /\ ttestCalls = << [left |-> oldValues, right |-> newValues,
                             alternative |-> "greater"] >>
    /\ MeansEqual => analysis[1].direction = 0
    /\ analysis[1].direction \in {-1, 0, 1}

C5_Witness ==
  /\ Analysed
  /\ analysis[1].direction = 1
  /\ Len(oldValues) # Len(newValues)
  /\ oldValues[1] < newValues[1]

\* C6: with exactly equal means analyseResults runs no t-test and prints the
\* single no-difference line and nothing else, whatever the verbose setting.
C6_EqualMeansBareVerdict ==
  (pc # "analyse" /\ oldValues # << >> /\ newValues # << >> /\ MeansEqual) =>
    /\ pc = "analysed"
    /\ analysis[1].direction = 0
    /\ ttestCalls = << >>
    /\ Tags(stdout) = << "noDifference" >>
    /\ stderr = << >>

C6_Witness ==
  /\ pc = "analysed"
  /\ MeansEqual
  /\ Len(oldValues) # Len(newValues)
  /\ outOptions = << [verbose |-> TRUE] >>

\* C7: every rating printed is the one of the three-way partition: above 0.05
\* "Not significant", above 0.01 and up to 0.05 "Significant", up to 0.01
\* "Very significant".
C7_RatingPartition ==
  \A n \in DOMAIN stdout :
    stdout[n].t = "significance" =>
      LET p == stdout[n].pValue
      IN  /\ p.k = "fin"
          /\ stdout[n].rating =
               IF 100 * p.n > 5 * p.d THEN "Not significant"
               ELSE IF 100 * p.n > p.d THEN "Significant"
               ELSE "Very significant"

C7_Witness ==
  \E n \in DOMAIN stdout :
    /\ stdout[n].t = "significance"
    /\ stdout[n].pValue = Rat(5, 100)
    /\ stdout[n].rating = "Significant"

\* C8: with different means and a valid p-value, a p-value above 0.05 gives
\* the no-difference line and the two suggestion lines, and any other p-value
\* gives the direction word of the selected direction and one percentage line
\* for the same direction; a rating that is printed is "Not significant"
\* exactly when the no-difference line is.
C8_ReportMatchesSignificance ==
  (Analysed /\ ~MeansEqual /\ IsFinite(analysis[1].pValue)) =>
    LET p == analysis[1].pValue
        verdict == SelectSeq(stdout, IsVerdictLine)
    IN  /\ IF 100 * p.n > 5 * p.d
             THEN Tags(verdict) = << "noDifference", "considerVariability",
                                     "moreSamples" >>
             ELSE /\ Tags(verdict) = << "direction", "percent" >>
                  /\ verdict[1].word = (IF OldMeanGreater THEN "FASTER" ELSE "SLOWER")
                  /\ verdict[2].word = (IF OldMeanGreater THEN "faster" ELSE "slower")
        /\ \A n \in DOMAIN stdout :
             stdout[n].t = "significance" =>
               (stdout[n].rating = "Not significant" <=> HasLine(stdout, "noDifference"))

C8_Witness ==
  /\ Analysed
  /\ OldMeanLess
  /\ HasLine(stdout, "percent")
  /\ HasLine(stdout, "significance")
  /\ analysis[1].pValue = Rat(5, 100)

\* C9 as stated: unless verbose mode is configured on, analyseResults prints
\* verdict lines only.
C9_VerboseOnlyWhenConfiguredOn ==
  (pc = "analysed" /\ outOptions # << [verbose |-> TRUE] >>) =>
    \A n \in DOMAIN stdout : IsVerdictLine(stdout[n])

\* C9 amended: the hypothesis and the rating are printed, in this order and
\* before the verdict lines, exactly when the means differ and verbose mode is
\* on or the output options were never set; with verbose mode set to off
\* analyseResults prints verdict lines only.
C9_VerboseUnlessConfiguredOff ==
  pc = "analysed" =>
    IF ~MeansEqual /\ outOptions # << [verbose |-> FALSE] >>
      THEN /\ Len(stdout) > 2
           /\ stdout[1].t = "hypothesis"
           /\ stdout[2].t = "significance"
           /\ \A n \in 3..Len(stdout) : IsVerdictLine(stdout[n])
      ELSE \A n \in DOMAIN stdout : IsVerdictLine(stdout[n])

C9_Witness ==
  /\ pc = "analysed"
  /\ outOptions = << >>
  /\ HasLine(stdout, "hypothesis")
  /\ HasLine(stdout, "direction")

\* C10: the exit status is 0 only after both sets were measured in full and a
\* verdict was printed, a run that printed a verdict has exited with 0, and a
\* fetch failure or an invalid p-value gives a non-zero status.
C10_ExitStatus ==
  /\ 0 \in exitStatus =>
       /\ VerdictPrinted
       /\ Len(oldValues) = argv.repeat
       /\ Len(newValues) = argv.repeat
       /\ CountLog("new", "loadAndMeasure", "end") = argv.repeat
       /\ CountLog("old", "loadAndMeasure", "end") = argv.repeat
  /\ VerdictPrinted => exitStatus = {0}
  /\ FetchFailed => (exitStatus # {} /\ 0 \notin exitStatus)
  /\ (Analysed /\ ~IsFinite(analysis[1].pValue)) =>
       (exitStatus # {} /\ 0 \notin exitStatus)

C10_Witness ==
  /\ exitStatus = {0}
  /\ argv.repeat = 2
  /\ HasLine(stdout, "direction")

\* the Sample Set and the pushed bundles of a version
TimingsOf(version) == IF version = "old" THEN oldTimings ELSE newTimings
ValuesOf(version) == IF version = "old" THEN oldValues ELSE newValues
SetReturned(version) ==
  IF version = "old" THEN phase = "new" \/ pc = "waitNew" ELSE Analysed

WarmupsPrecedeSamples(version) ==
  /\ \A a, b \in DOMAIN loadLog :
       (/\ a < b
        /\ loadLog[a].version = version
        /\ loadLog[b].version = version
        /\ loadLog[a].kind = "loadAndMeasure") => loadLog[b].kind # "load"
  /\ CountLog(version, "loadAndMeasure", "start") > 0 =>
       /\ CountLog(version, "load", "start") = argv.throwaway
       /\ CountLog(version, "load", "end") = argv.throwaway
  /\ Len(TimingsOf(version)) = CountLog(version, "loadAndMeasure", "end")
  /\ SetReturned(version) =>
       /\ CountLog(version, "load", "end") = argv.throwaway
       /\ Len(ValuesOf(version)) = argv.repeat
       /\ \A n \in DOMAIN ValuesOf(version) :
            ValuesOf(version)[n] = TimingsOf(version)[n][argv.metric]

\* a sample, once pushed, keeps its position: a later sample goes behind it
SamplesKeepOrder ==
  /\ \A n \in DOMAIN oldTimings :
       n \in DOMAIN oldTimings' /\ oldTimings'[n] = oldTimings[n]
  /\ \A n \in DOMAIN newTimings :
       n \in DOMAIN newTimings' /\ newTimings'[n] = newTimings[n]

\* C11: for each version exactly `throwaway` warm-up loads are made, all of
\* them before the version's first recorded load; a warm-up load adds nothing
\* to the Sample Set, which on return holds exactly `repeat` values, the n-th
\* of them from the n-th recorded load.
C11_WarmupsThenRepeatSamples ==
  /\ [](WarmupsPrecedeSamples("old") /\ WarmupsPrecedeSamples("new"))
  /\ [][SamplesKeepOrder]_vars

C11_Witness ==
  /\ SetReturned("new")
  /\ argv.throwaway = 1
  /\ argv.repeat = 2
  /\ newValues[1] # newValues[2]

\* C12: a run with repeat = 0 performs no browser load at all and prints no
\* verdict: the empty Sample Set is rejected before any measurement begins.
C12_EmptySetRejectedBeforeLoads ==
  argv.repeat = 0 =>
    /\ \A n \in DOMAIN loadLog : loadLog[n].kind = "waitForInput"
    /\ ~VerdictPrinted

\* C13: with tti or tbt selected and Lighthouse mode off, the run has printed
\* the error and exited with a non-zero status without a prompt, an input or
\* a load; and every metric bundle recorded holds the selected metric.
C13_LighthouseOnlyMetrics ==
  /\ (argv.metric \in {"tti", "tbt"} /\ ~argv.lighthouse /\ pc # "main") =>
       /\ pc = "exited"
       /\ exitStatus # {}
       /\ 0 \notin exitStatus
       /\ HasLine(stderr, "lighthouseOnly")
       /\ stdout = << >>
       /\ loadLog = << >>
       /\ oldTimings = << >>
       /\ newTimings = << >>
  /\ \A n \in DOMAIN oldTimings : argv.metric \in DOMAIN oldTimings[n]
  /\ \A n \in DOMAIN newTimings : argv.metric \in DOMAIN newTimings[n]

C13_Witness ==
  /\ argv.metric = "tti"
  /\ ~argv.lighthouse
  /\ ~argv.url2
  /\ pc = "exited"

IsInput(version, n) ==
  loadLog[n] = [version |-> version, kind |-> "waitForInput", ev |-> "resolved"]
LastLineIsPrompt(version) ==
  /\ Len(stdout) > 0
  /\ stdout[Len(stdout)].t = "pressEnter"
  /\ stdout[Len(stdout)].version = version
PromptsPrinted ==
  Cardinality({n \in DOMAIN stdout : stdout[n].t = "pressEnter"})

\* C14: without url2, main waits after the OLD prompt with no load made, every
\* load of a version comes after the <Enter> awaited for that version, and it
\* waits after the NEW prompt with every old load finished and no new load
\* made; with url2 no prompt is printed and no input is awaited.
C14_PauseBetweenVersions ==
  IF ~argv.url2
    THEN /\ pc = "waitOld" => (loadLog = << >> /\ LastLineIsPrompt("old"))
         /\ pc = "waitNew" =>
              /\ LastLineIsPrompt("new")
              /\ ~NewLoadBegun
              /\ ~(\E n \in DOMAIN loadLog : IsInput("new", n))
              /\ CountLog("old", "load", "end") = argv.throwaway
              /\ CountLog("old", "loadAndMeasure", "end") = argv.repeat
              /\ CountLog("old", "loadAndMeasure", "start") = argv.repeat
         /\ \A n \in DOMAIN loadLog :
              loadLog[n].kind # "waitForInput" =>
                \E m \in 1..(n - 1) : IsInput(loadLog[n].version, m)
         /\ \A n \in DOMAIN loadLog :
              /\ IsInput("old", n) => (n = 1 /\ PromptsPrinted >= 1)
              /\ IsInput("new", n) =>
                   /\ PromptsPrinted = 2
                   /\ \A m \in 1..(n - 1) : loadLog[m].version = "old"
    ELSE /\ PromptsPrinted = 0
         /\ pc \notin {"waitOld", "waitNew"}
         /\ \A n \in DOMAIN loadLog : loadLog[n].kind # "waitForInput"

C14_Witness ==
  /\ ~argv.url2
  /\ NewLoadBegun
  /\ argv.repeat = 2
  /\ \E n \in DOMAIN loadLog : IsInput("new", n)

\* C16: a non-empty sample set made of one repeated value x has mean x and
\* standard deviation 0, with the mean passed as the hint or without it; and
\* for every non-empty set the standard deviation computed without the hint
\* is the one computed with the set's mean as the hint.
IsConstant(values) == \A n \in DOMAIN values : values[n] = values[1]

C16_ConstantSetStatistics ==
  /\ (pc = "mean" /\ IsConstant(oldValues)) =>
       NumEq(analysis[1].mean, Num(oldValues[1]))
  /\ (pc = "sd" /\ IsConstant(oldValues)) => analysis[1].sd = Num(0)
  /\ pc = "sd" =>
       analysis[1].sd = calculateStandardDeviation(oldValues, calculateMean(oldValues))

\* C17: every percentage line printed comes from a non-zero old mean, and
\* both of its figures (percent faster or slower, percent of the old
\* version's time) are finite numbers.
C17_PercentageFromNonZeroOldMean ==
  \A n \in DOMAIN stdout :
    stdout[n].t = "percent" =>
      /\ Analysed
      /\ analysis[1].oldMean.n # 0
      /\ IsFinite(stdout[n].pct)
      /\ IsFinite(stdout[n].ofOld)

\* the four ways a call of analyseResults ends
VerdictLines == Tags(SelectSeq(stdout, IsVerdictLine))
OutcomeAbort ==
  /\ pc = "exited"
  /\ exitStatus = {255}
  /\ HasLine(stderr, "Error: p-value is NaN.")
  /\ VerdictLines = << >>
OutcomeBare ==
  /\ pc = "analysed"
  /\ analysis[1].direction = 0
  /\ VerdictLines = << "noDifference" >>
OutcomeSuggestion ==
  /\ pc = "analysed"
  /\ VerdictLines = << "noDifference", "considerVariability", "moreSamples" >>
OutcomeDirectional ==
  /\ pc = "analysed"
  /\ VerdictLines = << "direction", "percent" >>

\* C18: a call of analyseResults on two non-empty sets ends in exactly one of
\* four outcomes: the abort on an invalid p-value, the bare no-difference
\* line, the no-difference line with the two suggestion lines, or a direction
\* line with one percentage line; never two verdicts, never none.
C18_ExactlyOneOutcome ==
  (pc # "analyse" /\ oldValues # << >> /\ newValues # << >>) =>
    Cardinality({o \in {"abort", "bare", "suggestion", "directional"} :
                   \/ o = "abort" /\ OutcomeAbort
                   \/ o = "bare" /\ OutcomeBare
                   \/ o = "suggestion" /\ OutcomeSuggestion
                   \/ o = "directional" /\ OutcomeDirectional}) = 1

C18_Witness ==
  /\ OutcomeSuggestion
  /\ Len(oldValues) = 1
  /\ Len(newValues) = 2
  /\ outOptions = << [verbose |-> FALSE] >>

====
